---- MODULE Spec2Model ----
(***************************************************************************)
(* Model of the notebook Bayesian_Gaussian_Mixture_Model.ipynb: the cells  *)
(* of the notebook as a straight-line program, the session helper          *)
(* reset_sess, the pure helpers make_tril / joint_log_prob, and the chain  *)
(* that sess.run executes.  Real-valued tensors are abstracted to small    *)
(* integers; shapes are kept exactly.  A tensor of shape [a] is a sequence *)
(* of length a, a tensor of shape [a, b] a sequence of a sequences.        *)
(***************************************************************************)
EXTENDS Integers, Sequences, FiniteSets, TLC

(* ---------------------------- program constants ------------------------ *)
dims == 2
components == 3

(* ------------------------------- bounds -------------------------------- *)
\* entries of a sampled tensor range over -MaxVal..MaxVal
MaxVal == 1
\* num_samples (1000 in the notebook) ranges over 1..MaxObs
MaxObs == 2
\* kernel steps taken by sample_chain (500 + 2000 in the notebook)
MaxSteps == 2
\* how many times the reset_sess cell may be re-executed
MaxResets == 2
\* largest matrix size n of the vectors make_tril is applied to on its own
MaxN == 2

Vals == (0 - MaxVal)..MaxVal

\* num_burnin_steps and num_results of the sample_chain call, scaled to
\* MaxSteps: the first steps are burn-in, the rest are returned
num_burnin_steps == MaxSteps \div 2
num_results == MaxSteps - num_burnin_steps

(* ------------------------------ tensor helpers ------------------------- *)
Reverse(s) == [i \in 1..Len(s) |-> s[Len(s) + 1 - i]]

Abs(v) == IF v < 0 THEN 0 - v ELSE v

\* tf.fill([n], value)
Fill(n, value) == [i \in 1..n |-> value]

\* tf.eye(n, batch_shape=[b])
Eye(n, b) == [k \in 1..b |-> [i \in 1..n |-> [j \in 1..n |-> IF i = j THEN 1 ELSE 0]]]

\* length of the flattened triangle of an n x n matrix: n * (n + 1) // 2
TriLen(n) == (n * (n + 1)) \div 2

\* the n with n * (n + 1) // 2 = m
TriN(m) == CHOOSE n \in 0..m : n * (n + 1) = 2 * m

\* tfd.fill_triangular(x) on one vector: concat(x[n:], reverse(x)), reshaped
\* to n x n, lower band kept
fill_triangular(x) ==
  LET m == Len(x)
      n == TriN(m)
      xs == SubSeq(x, n + 1, m) \o Reverse(x)
  IN  [i \in 1..n |-> [j \in 1..n |-> IF j <= i THEN xs[(i - 1) * n + j] ELSE 0]]

\* distribution_util.fill_triangular_inverse(y) on one matrix: the reversed
\* last row, then the leading entries of (upper rows + upper rows rotated)
fill_triangular_inverse(y) ==
  LET n == Len(y)
      m == TriLen(n)
      initial_elements == Reverse(y[n])
      consolidated == [p \in 1..(n * (n - 1)) |->
                         LET i == ((p - 1) \div n) + 1
                             j == ((p - 1) % n) + 1
                         IN  y[i][j] + y[n - i][n + 1 - j]]
  IN  initial_elements \o SubSeq(consolidated, 1, m - n)

\* tf.matrix_diag_part
matrix_diag_part(y) == [i \in 1..Len(y) |-> y[i][i]]

\* tf.linalg.set_diag
set_diag(y, d) == [i \in 1..Len(y) |-> [j \in 1..Len(y) |-> IF i = j THEN d[i] ELSE y[i][j]]]

\* the transform_fn argument of make_tril: tf.abs (the default), None, or
\* another elementwise function (tf.negative stands for "any other")
TransformFns == {"abs", "None", "negative"}

ApplyFn(fn, d) ==
  [i \in 1..Len(d) |-> IF fn = "abs" THEN Abs(d[i]) ELSE 0 - d[i]]

\* a make_tril that transforms the whole matrix instead of the diagonal
make_tril_1_all(x, transform_fn) ==
  LET y == fill_triangular(x)
  IN  IF transform_fn = "None" THEN y
      ELSE [i \in 1..Len(y) |-> ApplyFn(transform_fn, y[i])]

\* make_tril on one vector x
make_tril_1(x, transform_fn) ==
  LET y == fill_triangular(x)
  IN  IF transform_fn = "None" THEN y
      ELSE set_diag(y, ApplyFn(transform_fn, matrix_diag_part(y)))

\* make_tril on a [K, m] tensor with the default transform_fn=tf.abs
make_tril(x) == [k \in 1..Len(x) |-> make_tril_1(x[k], "abs")]

\* distribution_util.pad(logits, axis=-1, back=True)
pad(logits) == Append(logits, 0)

\* tfb.SoftmaxCentered().forward(logits): softmax of the logits padded with
\* a zero at the back; the result is kept as the K exponents e with
\* probs[k] = exp(e[k]) / sum_j exp(e[j])
SoftmaxCenteredForward(logits) == [softmax_of |-> pad(logits)]

(* ------------------------- session_options / sessions ------------------ *)
\* session_options(enable_gpu_ram_resizing, enable_xla): the tf.ConfigProto
session_options(enable_gpu_ram_resizing, enable_xla) ==
  [log_device_placement |-> TRUE,
   allow_growth |-> enable_gpu_ram_resizing,
   global_jit_level |-> IF enable_xla THEN "ON_1" ELSE "DEFAULT"]

\* the global name sess is unbound
NoSess == 0

\* how sess.close() can end: it returns (the session is closed), or it
\* raises with the session left open, or it raises after closing
CloseOutcomes == {"ok", "raised_open", "raised_closed"}

\* a reset that creates the new session without closing the old one
CloseSession_skip(all, s, outcome) == all

\* the try / sess.close() / except: pass of reset_sess; s = NoSess is the
\* NameError of the first call, swallowed by the bare except
CloseSession(all, s, outcome) ==
  IF s = NoSess THEN all
  ELSE [all EXCEPT ![s] = [@ EXCEPT !.open = (outcome = "raised_open"),
                                    !.close_raised = (outcome # "ok")]]

\* a reset that leaves the default graph in place
reset_default_graph_keep(g) == g

\* tf.reset_default_graph(): a fresh global default graph
reset_default_graph(g) == g + 1

\* tf.InteractiveSession(config=config) on the current default graph
InteractiveSession(config, g) ==
  [open |-> TRUE, graph |-> g, config |-> config, close_raised |-> FALSE]

(* ------------------------------ joint_log_prob ------------------------- *)
\* observations is a [n, d] tensor; only its shape is kept
Observations(n) == [n |-> n, d |-> dims]

\* the log-density of the model is finite only for a non-singular
\* chol_precision (log|det| of the factor appears in the density)
NonSingular(chol_precision) ==
  \A k \in 1..Len(chol_precision) :
    \A i \in 1..Len(chol_precision[k]) : chol_precision[k][i][i] # 0

\* a joint_log_prob whose logits term is broadcast over the components
joint_log_prob_bcast(observations, logits, loc, flat_chol_precision) ==
  LET chol_precision == make_tril(flat_chol_precision)
      mixture_logits == pad(logits)
      log_prob_parts == <<
        [i \in 1..observations.n |-> <<"observations", i>>],
        [k \in 1..Len(loc) |-> <<"logits", 1>>],
        [k \in 1..Len(loc) |-> <<"loc", k>>],
        [k \in 1..Len(chol_precision) |-> <<"precision", k>> ] >>
  IN  [logits |-> logits, loc |-> loc,
       flat_chol_precision |-> flat_chol_precision,
       chol_precision |-> chol_precision,
       mixture_logits |-> mixture_logits,
       shape_ok |-> (Len(mixture_logits) = Len(loc)
                       /\ Len(chol_precision) = Len(loc)),
       summands |-> log_prob_parts[1] \o log_prob_parts[2]
                      \o log_prob_parts[3] \o log_prob_parts[4],
       finite |-> NonSingular(chol_precision)]

\* joint_log_prob(observations, logits, loc, flat_chol_precision): the
\* arguments, the intermediate tensors and the summands of sum_log_prob.
\* A log-density is kept as the list of its terms: rv.log_prob(x) has one
\* term per batch member (per sample for rv_observations).
joint_log_prob(observations, logits, loc, flat_chol_precision) ==
  LET chol_precision == make_tril(flat_chol_precision)
      mixture_logits == pad(logits)
      log_prob_parts == <<
        [i \in 1..observations.n |-> <<"observations", i>>],
        << <<"logits", 1>> >>,
        [k \in 1..Len(loc) |-> <<"loc", k>>],
        [k \in 1..Len(chol_precision) |-> <<"precision", k>> ] >>
  IN  [logits |-> logits, loc |-> loc,
       flat_chol_precision |-> flat_chol_precision,
       chol_precision |-> chol_precision,
       mixture_logits |-> mixture_logits,
       shape_ok |-> (Len(mixture_logits) = Len(loc)
                       /\ Len(chol_precision) = Len(loc)),
       summands |-> log_prob_parts[1] \o log_prob_parts[2]
                      \o log_prob_parts[3] \o log_prob_parts[4],
       finite |-> NonSingular(chol_precision)]

\* unnormalized_posterior_log_prob = lambda *args: joint_log_prob(observations, *args)
unnormalized_posterior_log_prob(n, args) ==
  joint_log_prob(Observations(n), args.logits, args.loc, args.flat_chol_precision)

(* ------------------------------ the notebook --------------------------- *)
VARIABLES
  pc,               \* the code cell to execute next, "running", "done", "halted"
  executed,         \* the cells that ran to completion, in order
  bound,            \* the global names bound so far
  error,            \* the exception that halted the run, or "none"
  sess,             \* the global sess: an index into sessions, or NoSess
  sessions,         \* every session created so far
  defaultGraph,     \* the global default graph
  graphOf,          \* the graph holding the tensors each cell built
  resetCalls,       \* number of reset_sess calls
  resetBeforeRun,   \* a reset_sess call came between the last build and sess.run
  num_samples,      \* N, the number of observations (0: not generated yet)
  current_state,    \* the state of the Markov chain
  step,             \* kernel steps taken by sess.run
  chain,            \* the states sample_chain returns
  is_accepted,      \* kernel_results.is_accepted
  jlp,              \* the latest call of joint_log_prob
  fetch_ok,         \* did sess.run find its fetches in the session's graph
  results,          \* the values fetched by sess.run
  tril_pc, tril_x, tril_fn, tril_y   \* make_tril applied on its own

nbVars == <<pc, executed, bound, error>>
sessVars == <<sess, sessions, defaultGraph, resetCalls, resetBeforeRun>>
chainVars == <<current_state, step, chain, is_accepted, jlp, fetch_ok, results>>
trilVars == <<tril_pc, tril_x, tril_fn, tril_y>>
vars == <<nbVars, sessVars, graphOf, num_samples, chainVars, trilVars>>

\* the code cells of the notebook, top to bottom
Cells == <<"imports", "reset_sess", "transforms", "constants", "priors",
           "print_priors", "joint_log_prob", "observations", "initial_state",
           "sample_chain", "reductions", "sess_run", "print", "plot">>

\* a notebook whose sample_chain cell sits above the initial_state cell
NextCell_swapped(c) ==
  LET order == <<"imports", "reset_sess", "transforms", "constants", "priors",
                 "print_priors", "joint_log_prob", "observations", "sample_chain",
                 "initial_state", "reductions", "sess_run", "print", "plot">>
      i == CHOOSE j \in 1..Len(order) : order[j] = c
  IN  IF i = Len(order) THEN "done" ELSE order[i + 1]

\* the cell below c
NextCell(c) ==
  LET i == CHOOSE j \in 1..Len(Cells) : Cells[j] = c
  IN  IF i = Len(Cells) THEN "done" ELSE Cells[i + 1]

\* the global names a cell binds
Writes(c) ==
  CASE c = "imports" -> {"plt", "np", "sns", "tfp", "tf", "distribution_util", "tfd", "tfb"}
    [] c = "reset_sess" -> {"session_options", "reset_sess", "sess"}
    [] c = "transforms" -> {"UnconstrainedDirichlet", "MVNInverseTriL", "make_tril"}
    [] c = "constants" -> {"dtype", "dims", "components"}
    [] c = "priors" -> {"rv_logits", "rv_loc", "rv_precision"}
    [] c = "joint_log_prob" -> {"joint_log_prob"}
    [] c = "observations" -> {"num_samples", "true_loc", "random",
                              "true_hidden_component", "observations"}
    [] c = "initial_state" -> {"unnormalized_posterior_log_prob", "initial_state"}
    [] c = "sample_chain" -> {"logits", "loc", "flat_chol_precision", "kernel_results"}
    [] c = "reductions" -> {"probs", "chol_precision", "acceptance_rate", "mean_logits",
                            "mean_probs", "mean_loc", "mean_chol_precision"}
    [] c = "sess_run" -> {"acceptance_rate_", "mean_logits_", "mean_probs_", "mean_loc_",
                          "mean_chol_precision_", "probs_", "loc_", "chol_precision_"}
    [] c = "plot" -> {"ax"}
    [] OTHER -> {}

\* the global names a cell looks up while it runs, the bodies of the
\* functions it calls included (sess inside reset_sess is looked up under try)
Reads(c) ==
  CASE c = "reset_sess" -> {"tf"}
    [] c = "transforms" -> {"tfd", "tf"}
    [] c = "constants" -> {"np"}
    [] c = "priors" -> {"UnconstrainedDirichlet", "np", "components", "dtype", "tfd",
                        "tfb", "dims", "tf"}
    [] c = "print_priors" -> {"rv_logits", "rv_loc", "rv_precision"}
    [] c = "observations" -> {"np", "dtype", "components", "dims"}
    [] c = "initial_state" -> {"tf", "components", "np", "dtype", "distribution_util", "dims"}
    [] c = "sample_chain" -> {"tfp", "unnormalized_posterior_log_prob", "initial_state",
                              "joint_log_prob", "observations", "make_tril", "tfd",
                              "distribution_util", "MVNInverseTriL", "tf", "tfb",
                              "rv_logits", "rv_loc", "rv_precision"}
    [] c = "reductions" -> {"tfb", "logits", "make_tril", "flat_chol_precision", "tf",
                            "tfd", "kernel_results", "loc"}
    [] c = "sess_run" -> {"sess", "acceptance_rate", "mean_logits", "mean_probs",
                          "mean_loc", "mean_chol_precision", "probs", "loc",
                          "chol_precision"}
    [] c = "print" -> {"acceptance_rate_", "mean_logits_", "mean_probs_", "mean_loc_",
                       "mean_chol_precision_"}
    [] c = "plot" -> {"sns", "loc_", "plt"}
    [] OTHER -> {}

\* the cells that add tensors to a graph
TensorCells == {"priors", "initial_state", "sample_chain", "reductions"}
NoGraph == 0 - 1
ValueErr == 0 - 2
NoState == <<>>
NoCall == <<>>
NoResults == <<>>

\* where an op with the tensors of the cells `inputs` as inputs is built:
\* the default graph without tensor inputs; ValueError for inputs of two
\* graphs; for inputs of one graph that is no longer the default graph the
\* library either raises or builds in the inputs' graph
BuildOutcomes(inputs) ==
  LET gs == {graphOf[c] : c \in inputs}
  IN  IF gs = {} THEN {defaultGraph}
      ELSE IF Cardinality(gs) > 1 THEN {ValueErr}
      ELSE IF gs = {defaultGraph} THEN gs
      ELSE gs \cup {ValueErr}

(* -------------------------------- the chain ---------------------------- *)
\* an initial_state that also carries the per-observation assignments Z_i
initial_state_Z ==
  [logits |-> Fill(components - 1, 0),
   loc |-> << <<-2, -2>>, <<0, 0>>, <<2, 2>> >>,
   flat_chol_precision |->
     [k \in 1..components |-> fill_triangular_inverse(Eye(dims, components)[k])],
   z |-> Fill(num_samples, 0)]

\* initial_state: the three unconstrained tensors handed to sample_chain
initial_state ==
  [logits |-> Fill(components - 1, 0),
   loc |-> << <<-2, -2>>, <<0, 0>>, <<2, 2>> >>,
   flat_chol_precision |->
     [k \in 1..components |-> fill_triangular_inverse(Eye(dims, components)[k])]]

\* the states one HMC step can propose from s: the unconstrained space is
\* abstracted to one coordinate of the first mixture component (its logit,
\* its location, its flattened Cholesky factor) moved to any value of Vals
Proposals(s) ==
  {[s EXCEPT !.logits[1] = v] : v \in Vals}
  \cup {[s EXCEPT !.loc[1][j] = v] : j \in 1..Len(s.loc[1]), v \in Vals}
  \cup {[s EXCEPT !.flat_chol_precision[1][i] = v]
          : i \in 1..Len(s.flat_chol_precision[1]), v \in Vals}

\* a kernel that stores the constrained factor back into the state
one_step_constrained(s, proposal, accepted) ==
  IF accepted
  THEN [proposal EXCEPT !.flat_chol_precision =
          [k \in 1..Len(proposal.flat_chol_precision) |->
             fill_triangular_inverse(make_tril(proposal.flat_chol_precision)[k])]]
  ELSE s

\* the next state of the chain: the proposal if the Metropolis step
\* accepted it, else the current state
one_step(s, proposal, accepted) == IF accepted THEN proposal ELSE s

Init ==
  /\ pc = "imports" /\ executed = <<>> /\ bound = {} /\ error = "none"
  /\ sess = NoSess /\ sessions = <<>> /\ defaultGraph = 0
  /\ graphOf = [c \in TensorCells |-> NoGraph]
  /\ resetCalls = 0 /\ resetBeforeRun = FALSE
  /\ num_samples = 0
  /\ current_state = NoState /\ step = 0 /\ chain = <<>> /\ is_accepted = <<>>
  /\ jlp = NoCall /\ fetch_ok = "none" /\ results = NoResults
  /\ tril_pc = "unused" /\ tril_x = <<>> /\ tril_fn = "None" /\ tril_y = <<>>

NamesOk(c) == Reads(c) \subseteq bound

Advance(c) ==
  /\ bound' = bound \cup Writes(c)
  /\ executed' = Append(executed, c)
  /\ pc' = NextCell(c)
  /\ error' = error

\* an uncaught exception stops the run
Halt(e) == pc' = "halted" /\ error' = e /\ UNCHANGED <<executed, bound>>

\* a cell that only binds names
PlainCell(c) ==
  /\ pc = c
  /\ IF NamesOk(c) THEN Advance(c) ELSE Halt("NameError")
  /\ UNCHANGED <<sessVars, graphOf, num_samples, chainVars, trilVars>>

\* a cell that builds tensors from the tensors of the cells `inputs`
BuildCell(c, inputs) ==
  /\ pc = c
  /\ IF ~NamesOk(c)
     THEN Halt("NameError") /\ UNCHANGED graphOf
     ELSE \E g \in BuildOutcomes(inputs) :
            IF g = ValueErr
            THEN Halt("ValueError") /\ UNCHANGED graphOf
            ELSE Advance(c) /\ graphOf' = [graphOf EXCEPT ![c] = g]
  /\ UNCHANGED <<sessVars, num_samples, chainVars, trilVars>>

\* reset_sess(config=None)
ResetSess(outcome) ==
  LET config == session_options(TRUE, TRUE)
      g == reset_default_graph(defaultGraph)
  IN  /\ defaultGraph' = g
      /\ sessions' = Append(CloseSession(sessions, sess, outcome),
                            InteractiveSession(config, g))
      /\ sess' = Len(sessions) + 1
      /\ resetCalls' = resetCalls + 1
      /\ resetBeforeRun' = (resetBeforeRun \/ pc = "sess_run")

ImportsCell == PlainCell("imports")

\* def session_options, def reset_sess, reset_sess()
ResetSessCell ==
  /\ pc = "reset_sess"
  /\ IF NamesOk("reset_sess")
     THEN Advance("reset_sess") /\ \E outcome \in CloseOutcomes : ResetSess(outcome)
     ELSE Halt("NameError") /\ UNCHANGED sessVars
  /\ UNCHANGED <<graphOf, num_samples, chainVars, trilVars>>

TransformsCell == PlainCell("transforms")
ConstantsCell == PlainCell("constants")
PriorsCell == BuildCell("priors", {})
PrintPriorsCell == PlainCell("print_priors")
JointLogProbCell == PlainCell("joint_log_prob")

ObservationsCell ==
  /\ pc = "observations"
  /\ IF NamesOk("observations")
     THEN Advance("observations") /\ \E n \in 1..MaxObs : num_samples' = n
     ELSE Halt("NameError") /\ UNCHANGED num_samples
  /\ UNCHANGED <<sessVars, graphOf, chainVars, trilVars>>

InitialStateCell == BuildCell("initial_state", {})
SampleChainCell == BuildCell("sample_chain", {"priors", "initial_state"})
ReductionsCell == BuildCell("reductions", {"sample_chain"})

(* ------------------------------- sess.run ------------------------------ *)
RECURSIVE SumTo(_, _)
SumTo(f, n) == IF n = 0 THEN 0 ELSE f[n] + SumTo(f, n - 1)

\* tf.reduce_mean(x, axis=0), kept as the pair (sum, count), for tensors of
\* rank 1, 2, 3 and 4
reduce_mean_1(x) == [sum |-> SumTo(x, Len(x)), count |-> Len(x)]
reduce_mean_2(x) ==
  [sum |-> [i \in 1..Len(x[1]) |-> SumTo([t \in 1..Len(x) |-> x[t][i]], Len(x))],
   count |-> Len(x)]
reduce_mean_3(x) ==
  [sum |-> [k \in 1..Len(x[1]) |-> [j \in 1..Len(x[1][k]) |->
              SumTo([t \in 1..Len(x) |-> x[t][k][j]], Len(x))]],
   count |-> Len(x)]
reduce_mean_4(x) ==
  [sum |-> [k \in 1..Len(x[1]) |-> [i \in 1..Len(x[1][k]) |->
              [j \in 1..Len(x[1][k][i]) |->
                 SumTo([t \in 1..Len(x) |-> x[t][k][i][j]], Len(x))]]],
   count |-> Len(x)]

\* the reductions cell evaluated on the chain that sample_chain returned
Reductions(logits, loc, flat_chol_precision, accepted) ==
  LET probs == [t \in 1..Len(logits) |-> SoftmaxCenteredForward(logits[t])]
      chol_precision == [t \in 1..Len(flat_chol_precision) |->
                           make_tril(flat_chol_precision[t])]
  IN  [acceptance_rate_ |->
         reduce_mean_1([t \in 1..Len(accepted) |-> IF accepted[t] THEN 1 ELSE 0]),
       mean_logits_ |-> reduce_mean_2(logits),
       mean_probs_ |-> [mean_of |-> probs],
       mean_loc_ |-> reduce_mean_3(loc),
       mean_chol_precision_ |-> reduce_mean_4(chol_precision),
       probs_ |-> probs,
       loc_ |-> loc,
       chol_precision_ |-> chol_precision]

\* the tensors sess.run fetches were built by these cells
FetchedFrom == {"sample_chain", "reductions"}

\* sess.run([...]) begins: the fetches must be elements of the session's
\* graph; the chain starts from initial_state, whose log-density the kernel
\* evaluates first
RunStart ==
  /\ pc = "sess_run"
  /\ IF ~NamesOk("sess_run")
     THEN Halt("NameError") /\ UNCHANGED chainVars
     ELSE IF \E c \in FetchedFrom : graphOf[c] # sessions[sess].graph
     THEN /\ Halt("FetchError")
          /\ fetch_ok' = "bad"
          /\ UNCHANGED <<current_state, step, chain, is_accepted, jlp, results>>
     ELSE /\ pc' = "running"
          /\ fetch_ok' = "ok"
          /\ current_state' = initial_state
          /\ jlp' = unnormalized_posterior_log_prob(num_samples, initial_state)
          /\ step' = 0
          /\ UNCHANGED <<executed, bound, error, chain, is_accepted, results>>
  /\ UNCHANGED <<sessVars, graphOf, num_samples, trilVars>>

\* one step of the HamiltonianMonteCarlo kernel inside sample_chain: the
\* target is evaluated at the proposal, a proposal of log-density -inf is
\* never accepted, the steps after burn-in are recorded
OneStep ==
  /\ pc = "running"
  /\ step < num_burnin_steps + num_results
  /\ \E proposal \in Proposals(current_state), u \in BOOLEAN :
       LET call == unnormalized_posterior_log_prob(num_samples, proposal)
           accepted == u /\ call.finite
           next == one_step(current_state, proposal, accepted)
       IN  /\ jlp' = call
           /\ current_state' = next
           /\ step' = step + 1
           /\ IF step >= num_burnin_steps
              THEN /\ chain' = Append(chain, next)
                   /\ is_accepted' = Append(is_accepted, accepted)
              ELSE UNCHANGED <<chain, is_accepted>>
  /\ UNCHANGED <<nbVars, sessVars, graphOf, num_samples, fetch_ok, results, trilVars>>

\* sess.run returns: the constrained values are computed from the chain
RunFinish ==
  /\ pc = "running"
  /\ step = num_burnin_steps + num_results
  /\ results' = Reductions([t \in 1..Len(chain) |-> chain[t].logits],
                           [t \in 1..Len(chain) |-> chain[t].loc],
                           [t \in 1..Len(chain) |-> chain[t].flat_chol_precision],
                           is_accepted)
  /\ Advance("sess_run")
  /\ UNCHANGED <<sessVars, graphOf, num_samples, current_state, step, chain,
                 is_accepted, jlp, fetch_ok, trilVars>>

PrintCell == PlainCell("print")
PlotCell == PlainCell("plot")

\* the reset_sess cell executed again between two cells, after a tensor
\* was built and before sess.run
RerunResetSess ==
  /\ "reset_sess" \in bound
  /\ \E c \in TensorCells : graphOf[c] # NoGraph
  /\ pc # "running"
  /\ fetch_ok = "none"
  /\ resetCalls <= MaxResets
  /\ \E outcome \in CloseOutcomes : ResetSess(outcome)
  /\ UNCHANGED <<nbVars, graphOf, num_samples, chainVars, trilVars>>

Next ==
  \/ ImportsCell \/ ResetSessCell \/ TransformsCell \/ ConstantsCell
  \/ PriorsCell \/ PrintPriorsCell \/ JointLogProbCell \/ ObservationsCell
  \/ InitialStateCell \/ SampleChainCell \/ ReductionsCell
  \/ RunStart \/ OneStep \/ RunFinish \/ PrintCell \/ PlotCell

\* the notebook run top to bottom
Spec == Init /\ [][Next]_vars

NextRerun == Next \/ RerunResetSess

\* the notebook run top to bottom, the reset_sess cell re-executed at will
SpecRerun == Init /\ [][NextRerun]_vars

(* ------------------------- make_tril on its own ------------------------ *)
InitTril ==
  /\ pc = "unused" /\ executed = <<>> /\ bound = {} /\ error = "none"
  /\ sess = NoSess /\ sessions = <<>> /\ defaultGraph = 0
  /\ graphOf = [c \in TensorCells |-> NoGraph]
  /\ resetCalls = 0 /\ resetBeforeRun = FALSE
  /\ num_samples = 0
  /\ current_state = NoState /\ step = 0 /\ chain = <<>> /\ is_accepted = <<>>
  /\ jlp = NoCall /\ fetch_ok = "none" /\ results = NoResults
  /\ tril_pc = "call"
  /\ tril_x \in UNION {[1..TriLen(n) -> Vals] : n \in 1..MaxN}
  /\ tril_fn \in TransformFns
  /\ tril_y = <<>>

CallMakeTril ==
  /\ tril_pc = "call"
  /\ tril_y' = make_tril_1(tril_x, tril_fn)
  /\ tril_pc' = "returned"
  /\ UNCHANGED <<nbVars, sessVars, graphOf, num_samples, chainVars, tril_x, tril_fn>>

NextTril == CallMakeTril

SpecTril == InitTril /\ [][NextTril]_vars

(* ------------------------------- properties ---------------------------- *)
ClaimedStages == <<"reset_sess", "priors", "joint_log_prob", "observations",
                   "initial_state", "sample_chain", "reductions", "sess_run",
                   "print", "plot">>

IsPrefix(s, t) == Len(s) <= Len(t) /\ \A i \in 1..Len(s) : s[i] = t[i]

InClaimedStages(c) == \E i \in 1..Len(ClaimedStages) : ClaimedStages[i] = c

\* C1: the notebook runs its stages in the fixed order reset_sess, priors,
\* joint_log_prob, observations, initial_state, sample_chain, reductions,
\* sess.run, print, plot; no stage runs twice or is skipped, no stage fails,
\* and every stage reads only names bound by an earlier stage.
C1_StraightLine ==
  /\ pc # "halted" /\ error = "none"
  /\ IsPrefix(SelectSeq(executed, InClaimedStages), ClaimedStages)
  /\ \A i \in 1..Len(executed) :
       Reads(executed[i]) \subseteq UNION {Writes(executed[j]) : j \in 1..(i - 1)}
  /\ pc = "done" => SelectSeq(executed, InClaimedStages) = ClaimedStages
  /\ pc \in {"running", "print"} =>
       \E i \in 1..Len(ClaimedStages) :
         /\ ClaimedStages[i] = "sess_run"
         /\ Len(SelectSeq(executed, InClaimedStages)) \in {i - 1, i}

C1_Witness == pc = "done" /\ Len(executed) = Len(Cells) /\ results # NoResults

StateNames == {"logits", "loc", "flat_chol_precision"}

ChainLogits == [t \in 1..Len(chain) |-> chain[t].logits]
ChainFlat == [t \in 1..Len(chain) |-> chain[t].flat_chol_precision]

C2_Inv ==
  /\ current_state # NoState => DOMAIN current_state = StateNames
  /\ \A t \in 1..Len(chain) : DOMAIN chain[t] = StateNames
  /\ results # NoResults =>
       /\ step = num_burnin_steps + num_results
       /\ Len(chain) = num_results
       /\ results.probs_ = [t \in 1..Len(chain) |-> SoftmaxCenteredForward(ChainLogits[t])]
       /\ results.chol_precision_ = [t \in 1..Len(chain) |-> make_tril(ChainFlat[t])]

C2_Step ==
  /\ (current_state # NoState /\ current_state' # current_state) =>
        current_state' = [logits |-> jlp'.logits, loc |-> jlp'.loc,
                          flat_chol_precision |-> jlp'.flat_chol_precision]
  /\ (is_accepted' # is_accepted /\ is_accepted'[Len(is_accepted')]) =>
        current_state' = [logits |-> jlp'.logits, loc |-> jlp'.loc,
                          flat_chol_precision |-> jlp'.flat_chol_precision]
  /\ chain' # chain => chain' = Append(chain, current_state')
  /\ results # NoResults => UNCHANGED <<current_state, chain, results>>
  /\ results' # results => UNCHANGED <<current_state, chain>>

\* C2: the chain runs in unconstrained space: the state handed to
\* sample_chain and every state it returns is the triple (logits, loc,
\* flat_chol_precision), a step moves the state to the unconstrained proposal
\* or leaves it, and probs / chol_precision are computed after sampling from
\* the returned chain and never change the chain.
C2_Unconstrained == [](C2_Inv) /\ [][C2_Step]_vars

\* a negative diagonal entry was sampled and returned, chol_precision differs
C2_Witness ==
  /\ results # NoResults
  /\ \E t \in 1..Len(chain) : \E k \in 1..components :
       /\ chain[t].logits # initial_state.logits
       /\ chain[t].flat_chol_precision[k][1] < 0
       /\ results.chol_precision_[t][k][dims][dims] > 0

SumLen(x) == SumTo([k \in 1..Len(x) |-> Len(x[k])], Len(x))

StateSize(s) == Len(s.logits) + SumLen(s.loc) + SumLen(s.flat_chol_precision)

HasShape(s) ==
  /\ DOMAIN s = StateNames
  /\ Len(s.logits) = components - 1
  /\ Len(s.loc) = components
  /\ \A k \in 1..components : Len(s.loc[k]) = dims
  /\ Len(s.flat_chol_precision) = components
  /\ \A k \in 1..components : Len(s.flat_chol_precision[k]) = (dims * (dims + 1)) \div 2
  /\ StateSize(s) = (components - 1) + components * dims
                      + components * ((dims * (dims + 1)) \div 2)

\* C3: the chain state holds no per-observation assignment: it has
\* components-1 logits, components x dims locations and components x
\* dims*(dims+1)/2 flattened Cholesky entries, whatever the number of
\* observations.
C3_StateShape ==
  /\ current_state # NoState => HasShape(current_state)
  /\ \A t \in 1..Len(chain) : HasShape(chain[t])

C3_Witness ==
  /\ num_samples = MaxObs /\ num_samples > 1
  /\ Len(chain) > 0 /\ chain[1] # initial_state

ExpectedTerms ==
  {<<"observations", i>> : i \in 1..num_samples}
  \cup {<<"logits", 1>>}
  \cup {<<"loc", k>> : k \in 1..components}
  \cup {<<"precision", k>> : k \in 1..components}

\* C4: joint_log_prob sums exactly N + 1 + K + K terms: one likelihood term
\* per observation, one prior term for logits, one per component for loc and
\* one per component for chol_precision, each exactly once.
C4_Terms ==
  jlp # NoCall =>
    /\ Len(jlp.summands) = num_samples + 1 + components + components
    /\ \A t \in ExpectedTerms :
         Cardinality({i \in 1..Len(jlp.summands) : jlp.summands[i] = t}) = 1
    /\ \A i \in 1..Len(jlp.summands) : jlp.summands[i] \in ExpectedTerms

C4_Witness == jlp # NoCall /\ num_samples > 1 /\ step > 0

\* C5: every call of joint_log_prob made by the sampler passes a [K]-shaped
\* logits tensor, K the number of mixture components.
C5_LogitsShapeK == jlp # NoCall => Len(jlp.logits) = components

IsLowerTriangular(y) ==
  \A i \in 1..Len(y) : \A j \in 1..Len(y) : j > i => y[i][j] = 0

\* C6: make_tril(x, transform_fn) is fill_triangular(x) with the diagonal
\* replaced by transform_fn(diagonal) and the off-diagonal entries unchanged;
\* with transform_fn=None it is fill_triangular(x); with tf.abs every
\* diagonal entry is >= 0.
C6_MakeTril ==
  tril_pc = "returned" =>
    LET y == fill_triangular(tril_x)
        n == Len(y)
    IN  /\ Len(tril_y) = n
        /\ IsLowerTriangular(tril_y)
        /\ \A i \in 1..n : \A j \in 1..n : i # j => tril_y[i][j] = y[i][j]
        /\ tril_fn = "None" => tril_y = y
        /\ tril_fn = "abs" => \A i \in 1..n : tril_y[i][i] = Abs(y[i][i]) /\ tril_y[i][i] >= 0
        /\ tril_fn = "negative" => \A i \in 1..n : tril_y[i][i] = 0 - y[i][i]

\* the default transform on a 2 x 2 factor with a negative diagonal entry
\* and a negative off-diagonal entry
C6_Witness ==
  /\ tril_pc = "returned" /\ tril_fn = "abs" /\ Len(tril_x) = 3
  /\ tril_x[1] < 0 /\ tril_x[2] < 0
  /\ tril_y[2][2] > 0 /\ tril_y[2][1] < 0

\* C7: the precision factor used by the model is positive definite:
\* make_tril(flat_chol_precision) is lower-triangular with a strictly
\* positive diagonal for each component, for every flat_chol_precision the
\* model is evaluated at, entries equal to 0 included.
C7_PositiveDiagonal ==
  jlp # NoCall =>
    \A k \in 1..Len(jlp.chol_precision) :
      /\ IsLowerTriangular(jlp.chol_precision[k])
      /\ \A i \in 1..Len(jlp.chol_precision[k]) : jlp.chol_precision[k][i][i] > 0

\* C8 as stated: sess is the session of the most recent reset_sess call, it
\* is open, and every earlier session is closed, also when close() raised.
C8_AllEarlierClosed ==
  sess # NoSess =>
    /\ sess = Len(sessions)
    /\ sessions[sess].open
    /\ \A i \in 1..Len(sessions) : i # sess => ~sessions[i].open

\* C8 amended: sess is the session of the most recent reset_sess call, it is
\* open, and every earlier session is closed unless its close() raised.
C8_EarlierClosedUnlessRaised ==
  /\ Len(sessions) = resetCalls
  /\ (resetCalls > 0) = (sess # NoSess)
  /\ sess # NoSess =>
       /\ sess = Len(sessions)
       /\ sessions[sess].open /\ ~sessions[sess].close_raised
       /\ \A i \in 1..Len(sessions) :
            i # sess => (sessions[i].open => sessions[i].close_raised)

C8_Witness ==
  /\ Len(sessions) >= 3
  /\ ~sessions[1].open /\ ~sessions[1].close_raised
  /\ sessions[2].open /\ sessions[2].close_raised

\* C9: the tensors fetched by sess.run belong to the graph of the session
\* bound to sess when reset_sess was called exactly once, before any tensor
\* was built (the top-to-bottom run), and a reset_sess call between building
\* the tensors and sess.run breaks this.
C9_FetchGraph ==
  fetch_ok # "none" =>
    /\ resetCalls = 1 =>
         /\ fetch_ok = "ok"
         /\ \A c \in FetchedFrom : graphOf[c] = sessions[sess].graph
    /\ resetBeforeRun =>
         /\ fetch_ok = "bad"
         /\ \E c \in FetchedFrom : graphOf[c] # sessions[sess].graph

C9_Witness == fetch_ok = "bad" /\ resetBeforeRun /\ resetCalls = 2
====
